---- MODULE Spec2Model ----
(***************************************************************************)
(* A model of intedact/univariate_summaries.py: the summary-table builder  *)
(* compute_univariate_summary_table and the five type-specific             *)
(* orchestrators, together with the two pieces of state that outlive a     *)
(* call: the caller's DataFrame and seaborn's global colour palette.       *)
(*                                                                         *)
(* Encoding of Python values                                               *)
(*   cell          <<>> is a missing entry (NaN/None/NaT), <<v>> a value   *)
(*   Optional arg  <<>> is None, <<v>> a supplied value                    *)
(*   statistic     <<>> is NaN, <<n>> an integer, <<p, q>> the ratio p/q   *)
(*   quantiles     min, 25%, median, 75%, max and iqr are kept in quarter  *)
(*                 units (<<n>> stands for n/4): linear interpolation at   *)
(*                 q = 1/4, 1/2, 3/4 of integers is a multiple of 1/4      *)
(*   std           <<p, q>> is the sample variance p/q whose root it is    *)
(*   DataFrame     a function from column names to equally long sequences  *)
(*                 of cells                                                *)
(***************************************************************************)
EXTENDS Integers, Sequences, FiniteSets, TLC

VARIABLES callerData, kind, palette, pc, last, ret, built, shown, figure, work

vars == <<callerData, kind, palette, pc, last, ret, built, shown, figure, work>>

-----------------------------------------------------------------------------
(* Bounds of the model *)

MaxLen == 3

MaxTrim == 1

-----------------------------------------------------------------------------
(* Program constants *)

FLIP_LEVEL_MINIMUM == 5

-----------------------------------------------------------------------------
(* Python values *)

NA == <<>>

IsNull(c) == c = <<>>

None == <<>>

NaN == <<>>

Column == "x"

Min(a, b) == IF a <= b THEN a ELSE b

Max(a, b) == IF a >= b THEN a ELSE b

RECURSIVE SumSeq(_)
SumSeq(s) == IF s = <<>> THEN 0 ELSE Head(s) + SumSeq(Tail(s))

RECURSIVE SelectIdx(_, _, _)
SelectIdx(s, keep, i) ==
    IF i > Len(s) THEN <<>>
    ELSE IF i \in keep THEN <<s[i]>> \o SelectIdx(s, keep, i + 1)
         ELSE SelectIdx(s, keep, i + 1)

NumRows(df) == Len(df[Column])

(* df[rows]: the frame restricted to the row positions in keep, in order *)
TakeRows(df, keep) == [c \in DOMAIN df |-> SelectIdx(df[c], keep, 1)]

(* df[name] = cols[name], for every name in cols *)
WithColumns(df, cols) ==
    [c \in (DOMAIN df) \cup (DOMAIN cols) |->
        IF c \in DOMAIN cols THEN cols[c] ELSE df[c]]

(* the value of a one-element set: Only({F(x) : x \in {e}}) is F(e) with e *)
(* evaluated once                                                          *)
Only(S) == CHOOSE v \in S : TRUE

-----------------------------------------------------------------------------
(* pandas Series reductions, on a sequence of cells holding integers *)

Observed(col) == {i \in 1..Len(col) : ~IsNull(col[i])}

(* Series.isnull().sum() *)
IsnullSum(col) == Cardinality({i \in 1..Len(col) : IsNull(col[i])})

(* nunique(dropna=False): a missing entry counted as a level of its own *)
NuniqueWithMissing(col) == Cardinality({col[i] : i \in 1..Len(col)})

(* Series.nunique(): distinct non-missing values *)
Nunique(col) == Cardinality({col[i] : i \in Observed(col)})

(* position of row i among the observed values in ascending (stable) order *)
Rank(col, i) ==
    1 + Cardinality({j \in Observed(col) :
            \/ col[j][1] < col[i][1]
            \/ (col[j][1] = col[i][1] /\ j < i)})

(* the k-th smallest observed value, k in 1..count *)
SortedAt(col, k) == col[CHOOSE i \in Observed(col) : Rank(col, i) = k][1]

ObservedValues(col) == [k \in 1..Cardinality(Observed(col)) |-> SortedAt(col, k)]

SeriesMin(col) ==
    IF Observed(col) = {} THEN NaN ELSE <<4 * SortedAt(col, 1)>>

SeriesMax(col) ==
    IF Observed(col) = {} THEN NaN
    ELSE <<4 * SortedAt(col, Cardinality(Observed(col)))>>

(* Series.quantile(k4 / 4), linear interpolation between order statistics *)
Quantile(col, k4) ==
    LET m    == Cardinality(Observed(col))
        pos4 == k4 * (m - 1)
        lo   == pos4 \div 4
        r    == pos4 % 4
    IN  IF m = 0 THEN NaN
        ELSE IF r = 0 THEN <<4 * SortedAt(col, lo + 1)>>
        ELSE <<4 * SortedAt(col, lo + 1)
                 + r * (SortedAt(col, lo + 2) - SortedAt(col, lo + 1))>>

(* Series.median(): the middle value, or the mean of the two middle values *)
Median(col) ==
    LET m == Cardinality(Observed(col))
    IN  IF m = 0 THEN NaN
        ELSE IF m % 2 = 1 THEN <<4 * SortedAt(col, (m + 1) \div 2)>>
        ELSE <<2 * (SortedAt(col, m \div 2) + SortedAt(col, m \div 2 + 1))>>

Minus(a, b) == IF a = NaN \/ b = NaN THEN NaN ELSE <<a[1] - b[1]>>

SeriesMean(col) ==
    LET m == Cardinality(Observed(col))
    IN  IF m = 0 THEN NaN ELSE <<SumSeq(ObservedValues(col)), m>>

(* Series.std(), ddof = 1 *)
SeriesStd(col) ==
    LET m  == Cardinality(Observed(col))
        v  == ObservedValues(col)
        s  == SumSeq(v)
        s2 == SumSeq([k \in 1..m |-> v[k] * v[k]])
    IN  IF m < 2 THEN NaN ELSE <<m * s2 - s * s, m * (m - 1)>>

(* Series.describe() of a numeric column, transposed to one row *)
Describe(col) ==
    "count" :> <<Cardinality(Observed(col))>> @@
    "mean"  :> SeriesMean(col) @@
    "std"   :> SeriesStd(col) @@
    "min"   :> SeriesMin(col) @@
    "25%"   :> Quantile(col, 1) @@
    "50%"   :> Quantile(col, 2) @@
    "75%"   :> Quantile(col, 3) @@
    "max"   :> SeriesMax(col)

-----------------------------------------------------------------------------
(* data_utils.trim_values: drop the lower_trim smallest and the upper_trim   *)
(* largest values of the column; rows with a missing entry are kept.         *)

trim_values(df, column, lower_trim, upper_trim) ==
    LET col == df[column]
        m   == Cardinality(Observed(col))
        cut == {i \in Observed(col) :
                   Rank(col, i) <= lower_trim \/ Rank(col, i) > m - upper_trim}
    IN  IF lower_trim = 0 /\ upper_trim = 0 THEN df
        ELSE TakeRows(df, (1..Len(col)) \ cut)

-----------------------------------------------------------------------------
(* compute_univariate_summary_table *)

(* a quotient of zero where there are no rows to divide by *)
CountDivideZeroRows(num, den) == IF den = 0 THEN <<0, 1>> ELSE <<num, den>>

(* numpy's true division of the int64 count: 0 / 0 is nan, not an error *)
CountDivide(num, den) == IF den = 0 THEN NaN ELSE <<num, den>>

(* count_obs without the missing rows taken off *)
CountObservedAllRows(rows, count_missing) == rows

CountObserved(rows, count_missing) == rows - count_missing

counts_table(data, column) ==
    LET count_missing == IsnullSum(data[column])
        perc_missing  == CountDivide(100 * count_missing, NumRows(data))
        count_obs     == CountObserved(NumRows(data), count_missing)
        count_levels  == Nunique(data[column])
    IN  "count_observed"  :> <<count_obs>> @@
        "count_unique"    :> <<count_levels>> @@
        "count_missing"   :> <<count_missing>> @@
        "percent_missing" :> perc_missing

DatetimeStats(col) ==
    "min"    :> SeriesMin(col) @@
    "25%"    :> Quantile(col, 1) @@
    "median" :> Median(col) @@
    "75%"    :> Quantile(col, 3) @@
    "max"    :> SeriesMax(col) @@
    "iqr"    :> Minus(Quantile(col, 3), Quantile(col, 1))

(* iqr taken from the median instead of the lower quartile *)
ContinuousStatsIqrFromMedian(col) ==
    LET d == Describe(col)
    IN  "min"    :> d["min"] @@
        "25%"    :> d["25%"] @@
        "median" :> d["50%"] @@
        "mean"   :> d["mean"] @@
        "75%"    :> d["75%"] @@
        "max"    :> d["max"] @@
        "std"    :> d["std"] @@
        "iqr"    :> Minus(Quantile(col, 3), Quantile(col, 2))

ContinuousStats(col) ==
    LET d == Describe(col)
    IN  "min"    :> d["min"] @@
        "25%"    :> d["25%"] @@
        "median" :> d["50%"] @@
        "mean"   :> d["mean"] @@
        "75%"    :> d["75%"] @@
        "max"    :> d["max"] @@
        "std"    :> d["std"] @@
        "iqr"    :> Minus(Quantile(col, 3), Quantile(col, 1))

(* the branches tested in the other order, so that "datetime" takes the *)
(* branch written for continuous or datetime                            *)
compute_univariate_summary_table_branches_swapped(data0, column, data_type, lower_trim, upper_trim) ==
    LET data == trim_values(data0, column, lower_trim, upper_trim)
        cnt  == counts_table(data, column)
    IN  [index |-> column,
         stats |-> IF data_type = "continuous" \/ data_type = "datetime"
                       THEN cnt @@ ContinuousStats(data[column])
                   ELSE cnt]

(* the one-row table: its index label and its statistics *)
compute_univariate_summary_table(data0, column, data_type, lower_trim, upper_trim) ==
    LET data == trim_values(data0, column, lower_trim, upper_trim)
        cnt  == counts_table(data, column)
    IN  [index |-> column,
         stats |-> IF data_type = "datetime"
                       THEN cnt @@ DatetimeStats(data[column])
                   ELSE IF data_type = "continuous"
                       THEN cnt @@ ContinuousStats(data[column])
                   ELSE cnt]

-----------------------------------------------------------------------------
(* Python objects handed back to the caller or drawn *)

PyNone == [py |-> "NoneType"]

DataFrame(rows) == [py |-> "DataFrame", rows |-> rows]

Figure(panels) == [py |-> "Figure", panels |-> panels]

PyTuple(items) == [py |-> "tuple", items |-> items]

(* pd.concat([...], axis=0): the rows one after the other, every row given  *)
(* every column of the result, NaN where it had none                        *)
ConcatRows(rows) ==
    LET allcols == UNION {DOMAIN rows[i].stats : i \in 1..Len(rows)}
    IN  [i \in 1..Len(rows) |->
            [index |-> rows[i].index,
             stats |-> [c \in allcols |->
                           IF c \in DOMAIN rows[i].stats
                           THEN rows[i].stats[c] ELSE NaN]]]

-----------------------------------------------------------------------------
(* The DataFrame object a local name refers to: its content, whether it is  *)
(* an object of its own or the caller's object, and the caller's object.    *)

CallerRef(df) == [frame |-> df, own |-> FALSE, caller |-> df]

(* the caller's object itself instead of a copy of it *)
DataFrameAlias(d) == d

(* data.copy() *)
DataFrameCopy(d) == [frame |-> d.frame, own |-> TRUE, caller |-> d.caller]

(* a method that returns a new DataFrame with content df *)
NewFrame(d, df) == [frame |-> df, own |-> TRUE, caller |-> d.caller]

(* an in-place change of the object to content df *)
InPlace(d, df) ==
    [frame |-> df, own |-> d.own, caller |-> IF d.own THEN d.caller ELSE df]

(* data[name] = cols[name], one assignment after the other *)
SetColumns(d, cols) == InPlace(d, WithColumns(d.frame, cols))

NotNullRows(df, column) == {i \in 1..Len(df[column]) : ~IsNull(df[column][i])}

(* data.fillna({column: ""}): a missing document made an empty one and *)
(* its row kept                                                        *)
DropnaFillsEmpty(d, column) ==
    NewFrame(d, [d.frame EXCEPT ![column] =
        [i \in 1..Len(@) |-> IF IsNull(@[i]) THEN <<<<>>>> ELSE @[i]]])

(* data.dropna(subset=[column]) *)
Dropna(d, column) ==
    NewFrame(d, TakeRows(d.frame, NotNullRows(d.frame, column)))

(* data.dropna(subset=[column], inplace=True) *)
DropnaInplace(d, column) ==
    InPlace(d, TakeRows(d.frame, NotNullRows(d.frame, column)))

(* data = trim_values(data, ...) *)
Trimmed(d, column, lower_trim, upper_trim) ==
    NewFrame(d, trim_values(d.frame, column, lower_trim, upper_trim))

-----------------------------------------------------------------------------
(* seaborn's global palette.  sns.set_palette(None) re-installs the colour  *)
(* cycle currently in force, so it leaves the palette as it finds it.       *)

sns_set_palette(current, name) == IF name = None THEN current ELSE name[1]

(* no palette set when color_palette is "" *)
set_palette_no_default(current, color_palette) ==
    IF color_palette # <<"">>
    THEN sns_set_palette(current, color_palette)
    ELSE current

set_palette(current, color_palette) ==
    IF color_palette # <<"">>
    THEN sns_set_palette(current, color_palette)
    ELSE sns_set_palette(current, <<"tab10">>)

(* displayed whatever interactive is *)
DisplayAlways(interactive, what) == what

(* display(table) and plt.show(), in the order given, when interactive *)
Display(interactive, what) == IF interactive THEN what ELSE <<>>

Outcome(r, t, s, f, p, d) ==
    [ret |-> r, table |-> t, shown |-> s, figure |-> f, palette |-> p,
     work |-> d.frame, caller |-> d.caller]

-----------------------------------------------------------------------------
(* discrete_univariate_summary *)

DiscreteReturn(summary_table, fig) == PyTuple(<<summary_table, fig>>)

(* flipped from FLIP_LEVEL_MINIMUM levels on *)
InferFlipAxisAtMinimum(levels) == levels >= FLIP_LEVEL_MINIMUM

(* the flip_axis inferred when the caller gives none *)
InferFlipAxis(levels) == levels > FLIP_LEVEL_MINIMUM

discrete_univariate_summary(data0, pal0, column, color_palette, flip_axis, interactive) ==
    LET data == DataFrameCopy(data0)
        flip == IF flip_axis = None
                THEN InferFlipAxis(Nunique(data.frame[column]))
                ELSE flip_axis[1]
        pal  == set_palette(pal0, color_palette)
        summary_table ==
            DataFrame(<<compute_univariate_summary_table(
                           data.frame, column, "discrete", 0, 0)>>)
        fig  == Figure(<<[plot |-> "countplot", column |-> column,
                          flip_axis |-> flip, palette |-> pal]>>)
    IN  Outcome(DiscreteReturn(summary_table, fig), summary_table,
                Display(interactive, <<"table", "figure">>), fig, pal, data)

-----------------------------------------------------------------------------
(* continuous_univariate_summary *)

ContinuousReturn(table, f) == PyTuple(<<table, f>>)

(* upper_trim not handed on to the builder *)
ContinuousTableLowerTrimOnly(df, column, lower_trim, upper_trim) ==
    compute_univariate_summary_table(df, column, "continuous", lower_trim, 0)

ContinuousTable(df, column, lower_trim, upper_trim) ==
    compute_univariate_summary_table(df, column, "continuous", lower_trim, upper_trim)

continuous_univariate_summary(data0, pal0, column, color_palette, lower_trim, upper_trim, interactive) ==
    LET data  == DataFrameCopy(data0)
        pal   == set_palette(pal0, color_palette)
        table == DataFrame(<<ContinuousTable(data.frame, column, lower_trim, upper_trim)>>)
        f     == Figure(<<[plot |-> "histogram", column |-> column,
                           lower_trim |-> lower_trim, upper_trim |-> upper_trim,
                           palette |-> pal],
                          [plot |-> "boxplot", column |-> column,
                           lower_trim |-> lower_trim, upper_trim |-> upper_trim,
                           palette |-> pal]>>)
    IN  Outcome(ContinuousReturn(table, f), table,
                Display(interactive, <<"table", "figure">>), f, pal, data)

-----------------------------------------------------------------------------
(* Timestamps are whole hours since 2021-01-01 00:00 (a Friday), within the *)
(* year 2021; the .dt accessors follow the calendar of that year.           *)

MonthDays == <<31, 28, 31, 30, 31, 30, 31, 31, 30, 31, 30, 31>>

(* list(calendar.month_name)[1:] *)
MonthNames ==
    <<"January", "February", "March", "April", "May", "June", "July",
      "August", "September", "October", "November", "December">>

(* list(calendar.day_name) *)
DayNames ==
    <<"Monday", "Tuesday", "Wednesday", "Thursday", "Friday", "Saturday",
      "Sunday">>

DayOfYear(t) == (t \div 24) % 365

RECURSIVE MonthOf(_, _)
MonthOf(d, m) == IF d < MonthDays[m] THEN m ELSE MonthOf(d - MonthDays[m], m + 1)

RECURSIVE DayOf(_, _)
DayOf(d, m) == IF d < MonthDays[m] THEN d + 1 ELSE DayOf(d - MonthDays[m], m + 1)

dt_month_name(t) == MonthNames[MonthOf(DayOfYear(t), 1)]

dt_day(t) == DayOf(DayOfYear(t), 1)

dt_year(t) == 2021 + (t \div 8760)

dt_hour(t) == t % 24

dt_day_name(t) == DayNames[((4 + (t \div 24)) % 7) + 1]

(* Series.dt.<field> of a timestamp *)
DtField(field, t) ==
    CASE field = "Month"        -> dt_month_name(t)
      [] field = "Day of Month" -> dt_day(t)
      [] field = "Year"         -> dt_year(t)
      [] field = "Hour"         -> dt_hour(t)
      [] field = "Day of Week"  -> dt_day_name(t)

(* the derived column of a calendar field, missing entries staying missing *)
DtColumn(col, field) ==
    [i \in 1..Len(col) |->
        IF IsNull(col[i]) THEN NA ELSE <<DtField(field, col[i][1])>>]

(* pd.Categorical(values, categories): values outside the categories become *)
(* missing                                                                  *)
Categorical(col, categories) ==
    [i \in 1..Len(col) |->
        IF ~IsNull(col[i]) /\ col[i][1] \in categories THEN col[i] ELSE NA]

Range(s) == {s[i] : i \in 1..Len(s)}

(* data_utils.compute_time_deltas: the time elapsed between each observation *)
(* and the one before it, in the chosen unit (hours here)                   *)
compute_time_deltas(col) ==
    [i \in 1..Len(col) |->
        IF i = 1 \/ IsNull(col[i]) \/ IsNull(col[i - 1]) THEN NA
        ELSE <<col[i][1] - col[i - 1][1]>>]

(* data.iloc[1:, :] *)
DropFirstRow(df) == TakeRows(df, 2..NumRows(df))

-----------------------------------------------------------------------------
(* datetime_univariate_summary *)

DatetimeReturn(table, fig) == PyTuple(<<table, fig>>)

DatetimeDerived(d, column) ==
    SetColumns(d,
        "Month"        :> DtColumn(d.frame[column], "Month") @@
        "Day of Month" :> DtColumn(d.frame[column], "Day of Month") @@
        "Year"         :> DtColumn(d.frame[column], "Year") @@
        "Hour"         :> DtColumn(d.frame[column], "Hour") @@
        "Day of Week"  :> DtColumn(d.frame[column], "Day of Week") @@
        "deltas"       :> compute_time_deltas(d.frame[column]))

(* the days of the month taken as np.arange(1, 31, 1), the hours as *)
(* np.arange(1, 24, 1)                                              *)
DatetimeCategoricalsShortRanges(d) ==
    SetColumns(d,
        "Month"        :> Categorical(d.frame["Month"], Range(MonthNames)) @@
        "Day of Month" :> Categorical(d.frame["Day of Month"], 1..30) @@
        "Day of Week"  :> Categorical(d.frame["Day of Week"], Range(DayNames)) @@
        "Hour"         :> Categorical(d.frame["Hour"], 1..23))

DatetimeCategoricals(d) ==
    SetColumns(d,
        "Month"        :> Categorical(d.frame["Month"], Range(MonthNames)) @@
        "Day of Month" :> Categorical(d.frame["Day of Month"], 1..31) @@
        "Day of Week"  :> Categorical(d.frame["Day of Week"], Range(DayNames)) @@
        "Hour"         :> Categorical(d.frame["Hour"], 0..23))

DatetimeTable(df, column) ==
    LET table       == compute_univariate_summary_table(df, column, "datetime", 0, 0)
        delta_table == compute_univariate_summary_table(
                           DropFirstRow(df), "deltas", "continuous", 0, 0)
    IN  DataFrame(ConcatRows(
            <<table, [delta_table EXCEPT !.index = "Time Deltas (hours)"]>>))

DatetimePanels(df, column, pal) ==
    <<[plot |-> "time_series_countplot", column |-> column, palette |-> pal],
      [plot |-> "histogram", column |-> "deltas", palette |-> pal],
      [plot |-> "boxplot", column |-> "deltas", palette |-> pal],
      [plot |-> "countplot", column |-> "Month", palette |-> pal,
       flip_axis |-> TRUE, values |-> df["Month"]],
      [plot |-> "countplot", column |-> "Day of Month", palette |-> pal,
       flip_axis |-> TRUE, values |-> df["Day of Month"]],
      [plot |-> "countplot", column |-> "Day of Week", palette |-> pal,
       flip_axis |-> TRUE, values |-> df["Day of Week"]],
      [plot |-> "countplot", column |-> "Hour", palette |-> pal,
       flip_axis |-> TRUE, values |-> df["Hour"]]>>

datetime_univariate_summary(data0, pal0, column, color_palette, lower_trim, upper_trim, interactive) ==
    LET copied  == DataFrameCopy(data0)
        trimmed == Only({Trimmed(d, column, lower_trim, upper_trim) : d \in {copied}})
        pal     == set_palette(pal0, color_palette)
        derived == Only({DatetimeDerived(d, column) : d \in {trimmed}})
        table   == Only({DatetimeTable(d.frame, column) : d \in {derived}})
        data    == Only({DatetimeCategoricals(d) : d \in {derived}})
        fig     == Only({Figure(DatetimePanels(d.frame, column, pal)) : d \in {data}})
    IN  Outcome(DatetimeReturn(table, fig), table,
                Display(interactive, <<"table">>) \o Display(interactive, <<"figure">>),
                fig, pal, data)

-----------------------------------------------------------------------------
(* Text.  A document is the sequence of the tokens word_tokenize finds in   *)
(* it, written with one space between tokens.                               *)

TokenChars == "Cat" :> 3 @@ "cat" :> 3 @@ "the" :> 3 @@ "!" :> 1

(* str.lower() *)
Lower(w) == IF w = "Cat" THEN "cat" ELSE w

(* stopwords.words("english"), as far as the tokens above go *)
StopWords == {"the"}

(* str.isalnum() *)
IsAlnum(w) == w # "!"

(* len(x) of a document *)
DocChars(doc) ==
    IF doc = <<>> THEN 0
    ELSE SumSeq([i \in 1..Len(doc) |-> TokenChars[doc[i]]]) + (Len(doc) - 1)

RECURSIVE FilterTokens(_, _, _)
FilterTokens(doc, remove_stop, remove_punct) ==
    IF doc = <<>> THEN <<>>
    ELSE LET w    == Head(doc)
             keep == /\ (remove_stop => Lower(w) \notin StopWords)
                     /\ (remove_punct => IsAlnum(w))
         IN  (IF keep THEN <<w>> ELSE <<>>)
                 \o FilterTokens(Tail(doc), remove_stop, remove_punct)

Tokenize(doc, lower_case, remove_stop, remove_punct) ==
    FilterTokens(IF lower_case THEN [i \in 1..Len(doc) |-> Lower(doc[i])] ELSE doc,
                 remove_stop, remove_punct)

TextDerived(d, column, lower_case, remove_stop, remove_punct) ==
    LET col == d.frame[column]
    IN  SetColumns(d,
            "# Characters / Document" :>
                [i \in 1..Len(col) |-> <<DocChars(col[i][1])>>] @@
            "tokens" :>
                [i \in 1..Len(col) |->
                    <<Tokenize(col[i][1], lower_case, remove_stop, remove_punct)>>] @@
            "# Tokens / Document" :>
                [i \in 1..Len(col) |->
                    <<Len(Tokenize(col[i][1], lower_case, remove_stop, remove_punct))>>])

VocabSize(tokens) ==
    Cardinality(UNION {Range(tokens[i][1]) : i \in 1..Len(tokens)})

TextTable(df, column) ==
    LET t0     == compute_univariate_summary_table(df, column, "discrete", 0, 0)
        table  == [t0 EXCEPT !.stats = @ @@ ("vocab_size" :> <<VocabSize(df["tokens"])>>)]
        tokens_table == compute_univariate_summary_table(
                            df, "# Tokens / Document", "continuous", 0, 0)
        char_table   == compute_univariate_summary_table(
                            df, "# Characters / Document", "continuous", 0, 0)
    IN  DataFrame(ConcatRows(<<table, tokens_table, char_table>>))

TextPanels(df, column, compute_ngrams, pal) ==
    (IF compute_ngrams
     THEN <<[plot |-> "plot_ngrams", ngram_type |-> "tokens", palette |-> pal],
            [plot |-> "plot_ngrams", ngram_type |-> "bigrams", palette |-> pal],
            [plot |-> "plot_ngrams", ngram_type |-> "trigrams", palette |-> pal]>>
     ELSE <<>>)
    \o <<[plot |-> "histogram", column |-> "# Tokens / Document", palette |-> pal],
         [plot |-> "histogram", column |-> "# Characters / Document", palette |-> pal],
         [plot |-> "boxplot", column |-> "# Obs / Document", palette |-> pal]>>

(* what text_univariate_summary hands back: the figure alone *)
TextReturn(table, fig) == fig

text_univariate_summary(data0, pal0, column, color_palette, compute_ngrams, remove_punct, remove_stop, lower_case, interactive) ==
    LET pal     == set_palette(pal0, color_palette)
        copied  == DataFrameCopy(data0)
        dropped == Only({Dropna(d, column) : d \in {copied}})
        data    == Only({TextDerived(d, column, lower_case, remove_stop, remove_punct) :
                            d \in {dropped}})
        table   == Only({TextTable(d.frame, column) : d \in {data}})
        fig     == Figure(TextPanels(data.frame, column, compute_ngrams, pal))
    IN  Outcome(TextReturn(table, fig), table,
                Display(interactive, <<"table">>) \o Display(interactive, <<"figure">>),
                fig, pal, data)

-----------------------------------------------------------------------------
(* list_univariate_eda *)

RECURSIVE Flatten(_)
Flatten(seqs) == IF seqs = <<>> THEN <<>> ELSE Head(seqs) \o Flatten(Tail(seqs))

(* list(itertools.combinations(coll, 2)): the entries at positions i < j *)
RECURSIVE Combinations2(_)
Combinations2(coll) ==
    IF Len(coll) < 2 THEN <<>>
    ELSE [j \in 1..(Len(coll) - 1) |-> <<coll[1], coll[j + 1]>>]
             \o Combinations2(Tail(coll))

(* Series.value_counts() *)
ValueCounts(s) ==
    [k \in Range(s) |-> Cardinality({i \in 1..Len(s) : s[i] = k})]

(* the levels value_counts().sort_values(ascending=False).index[:n] may   *)
(* hold: n most frequent ones, ties broken either way                     *)
TopLevels(vc, n) ==
    {S \in SUBSET (DOMAIN vc) :
        /\ Cardinality(S) = Min(n, Cardinality(DOMAIN vc))
        /\ \A k \in S : \A j \in (DOMAIN vc) \ S : vc[k] >= vc[j]}

(* the bars drawn once the column is made Categorical over the kept levels *)
(* and the rest dropped                                                    *)
Bars(vc, kept) == [k \in kept |-> vc[k]]

ListEntries(df, column) ==
    Flatten([i \in 1..NumRows(df) |-> df[column][i][1]])

ListPairs(df, column) ==
    Flatten([i \in 1..NumRows(df) |-> Combinations2(df[column][i][1])])

ListNumEntries(d, column) ==
    SetColumns(d, "num_entries" :>
        [i \in 1..NumRows(d.frame) |-> <<Len(d.frame[column][i][1])>>])

(* list_univariate_eda ends without a return statement *)
ListReturn(fig) == PyNone

list_univariate_eda(data0, pal0, column, keptSingles, keptPairs) ==
    LET copied  == DataFrameCopy(data0)
        dropped == Only({DropnaInplace(d, column) : d \in {copied}})
        entries == Only({ListEntries(d.frame, column) : d \in {dropped}})
        pairs   == Only({ListPairs(d.frame, column) : d \in {dropped}})
        data    == Only({ListNumEntries(d, column) : d \in {dropped}})
        fig     == Figure(
            <<[plot |-> "bar", label |-> "Most Common Entries",
               counts |-> Bars(ValueCounts(entries), keptSingles)],
              [plot |-> "bar", label |-> "Most Common Entry Pairs",
               counts |-> Bars(ValueCounts(pairs), keptPairs)],
              [plot |-> "histogram", label |-> "# Entries / Observation",
               values |-> data.frame["num_entries"]],
              [plot |-> "boxplot", label |-> "# Observations / Unique List",
               title |-> <<Cardinality(Range(entries)), Len(entries),
                           NumRows(data.frame)>>]>>)
    IN  Outcome(ListReturn(fig), PyNone, <<>>, fig, pal0, data)

-----------------------------------------------------------------------------
(* The caller's datasets *)

NumValues == {-2, 1, 3}

TimeValues == {755, 8759}

DocValues == {<<"Cat", "the", "cat">>, <<"cat", "!">>}

ListValues == {<<1, 2>>, <<2, 1>>, <<2, 3>>, <<3>>}

Cells(values) == {NA} \cup {<<v>> : v \in values}

Columns(values) == UNION {[1..n -> Cells(values)] : n \in 0..MaxLen}

ExampleColumn == <<<<1>>, <<2>>, <<2>>, <<3>>, <<3>>, <<3>>, NA>>

(* five levels in seven rows, one of them missing *)
FiveLevelColumn == <<<<1>>, <<2>>, <<3>>, <<4>>, <<5>>, <<5>>, NA>>

(* six levels *)
SixLevelColumn == <<<<1>>, <<2>>, <<3>>, <<4>>, <<5>>, <<6>>>>

ColumnsOf(k) ==
    CASE k = "numeric"  -> Columns(NumValues)
                               \cup {ExampleColumn, FiveLevelColumn, SixLevelColumn}
      [] k = "datetime" -> Columns(TimeValues)
      [] k = "text"     -> Columns(DocValues)
      [] k = "list"     -> Columns(ListValues)

Kinds == {"numeric", "datetime", "text", "list"}

(* matplotlib starts with the tab10 colours as its colour cycle *)
Palettes == {"tab10", "deep"}

ColorPalettes == {None, <<"">>, <<"deep">>}

FlipAxes == {None, <<TRUE>>, <<FALSE>>}

Trims == 0..MaxTrim

TopEntries == {1, 10}

(* compute_ngrams, remove_punct, remove_stop, lower_case *)
TextOptions ==
    {<<FALSE, TRUE, TRUE, TRUE>>, <<TRUE, TRUE, TRUE, TRUE>>,
     <<FALSE, FALSE, FALSE, FALSE>>, <<TRUE, FALSE, TRUE, FALSE>>}

-----------------------------------------------------------------------------
(* The state machine: the caller builds a dataset, then calls the module's  *)
(* functions on it, one call after the other.                               *)

Args(fn, data_type, color_palette, flip_axis, lower_trim, upper_trim, interactive, options) ==
    [fn |-> fn, data_type |-> data_type, color_palette |-> color_palette,
     flip_axis |-> flip_axis, lower_trim |-> lower_trim, upper_trim |-> upper_trim,
     interactive |-> interactive, options |-> options]

NoCall == Args("none", "", None, None, 0, 0, None, <<>>)

Init ==
    /\ kind \in Kinds
    /\ \E col \in ColumnsOf(kind) : callerData = (Column :> col)
    /\ palette = "tab10"
    /\ pc = "idle"
    /\ last = NoCall
    /\ ret = PyNone
    /\ built = PyNone
    /\ shown = <<>>
    /\ figure = PyNone
    /\ work = callerData

Returns(a, out) ==
    /\ pc = "idle"
    /\ pc' = "returned"
    /\ last' = a
    /\ callerData' = out.caller
    /\ palette' = out.palette
    /\ ret' = out.ret
    /\ built' = out.table
    /\ shown' = out.shown
    /\ figure' = out.figure
    /\ work' = out.work
    /\ UNCHANGED kind

(* a direct call of compute_univariate_summary_table by the caller *)
summary_table_call(df, pal, column, data_type, lower_trim, upper_trim) ==
    LET t == DataFrame(<<compute_univariate_summary_table(
                            df, column, data_type, lower_trim, upper_trim)>>)
    IN  Outcome(t, t, <<>>, PyNone, pal, CallerRef(df))

(* the outcome of the call a from a state with the caller's data df and the *)
(* global palette pal                                                       *)
Run(a, df, pal) ==
    CASE a.fn = "discrete" ->
            discrete_univariate_summary(CallerRef(df), pal, Column,
                a.color_palette, a.flip_axis, a.interactive[1])
      [] a.fn = "continuous" ->
            continuous_univariate_summary(CallerRef(df), pal, Column,
                a.color_palette, a.lower_trim, a.upper_trim, a.interactive[1])
      [] a.fn = "datetime" ->
            datetime_univariate_summary(CallerRef(df), pal, Column,
                a.color_palette, a.lower_trim, a.upper_trim, a.interactive[1])
      [] a.fn = "text" ->
            text_univariate_summary(CallerRef(df), pal, Column,
                a.color_palette, a.options[1], a.options[2], a.options[3],
                a.options[4], a.interactive[1])
      [] a.fn = "list" ->
            list_univariate_eda(CallerRef(df), pal, Column,
                a.options[1], a.options[2])
      [] a.fn = "table" ->
            summary_table_call(df, pal, Column, a.data_type,
                a.lower_trim, a.upper_trim)

CallDiscrete ==
    /\ pc = "idle"
    /\ kind \in {"numeric", "text"}
    /\ \E cp \in ColorPalettes, flip \in FlipAxes, inter \in BOOLEAN :
         \E out \in {discrete_univariate_summary(
                        CallerRef(callerData), palette, Column, cp, flip, inter)} :
            Returns(Args("discrete", "discrete", cp, flip, 0, 0, <<inter>>, <<>>), out)

CallContinuous ==
    /\ pc = "idle"
    /\ kind = "numeric"
    /\ \E cp \in ColorPalettes, lt \in Trims, ut \in Trims, inter \in BOOLEAN :
         \E out \in {continuous_univariate_summary(
                        CallerRef(callerData), palette, Column, cp, lt, ut, inter)} :
            Returns(Args("continuous", "continuous", cp, None, lt, ut, <<inter>>, <<>>), out)

CallDatetime ==
    /\ pc = "idle"
    /\ kind = "datetime"
    /\ \E cp \in ColorPalettes, lt \in Trims, ut \in Trims, inter \in BOOLEAN :
         \E out \in {datetime_univariate_summary(
                        CallerRef(callerData), palette, Column, cp, lt, ut, inter)} :
            Returns(Args("datetime", "datetime", cp, None, lt, ut, <<inter>>, <<>>), out)

CallText ==
    /\ pc = "idle"
    /\ kind = "text"
    /\ \E cp \in ColorPalettes, inter \in BOOLEAN, opts \in TextOptions :
         \E out \in {text_univariate_summary(
                        CallerRef(callerData), palette, Column, cp,
                        opts[1], opts[2], opts[3], opts[4], inter)} :
            Returns(Args("text", "discrete", cp, None, 0, 0, <<inter>>, opts), out)

CallList ==
    /\ pc = "idle"
    /\ kind = "list"
    /\ \E top_entries \in TopEntries :
         LET df == TakeRows(callerData, NotNullRows(callerData, Column))
         IN  \E ks \in TopLevels(ValueCounts(ListEntries(df, Column)), top_entries),
                kp \in TopLevels(ValueCounts(ListPairs(df, Column)), top_entries) :
               \E out \in {list_univariate_eda(
                              CallerRef(callerData), palette, Column, ks, kp)} :
                  Returns(Args("list", "", None, None, 0, 0, None, <<ks, kp>>), out)

CallSummaryTable ==
    /\ pc = "idle"
    /\ kind \in {"numeric", "datetime"}
    /\ \E dt \in {"discrete", "continuous", "datetime"}, lt \in Trims, ut \in Trims :
         /\ kind = "datetime" => dt # "continuous"
         /\ \E out \in {summary_table_call(callerData, palette, Column, dt, lt, ut)} :
               Returns(Args("table", dt, None, None, lt, ut, None, <<>>), out)

(* the caller is done with what the call handed back *)
Resume ==
    /\ pc = "returned"
    /\ pc' = "idle"
    /\ last' = NoCall
    /\ ret' = PyNone
    /\ built' = PyNone
    /\ shown' = <<>>
    /\ figure' = PyNone
    /\ work' = callerData
    /\ UNCHANGED <<callerData, kind, palette>>

Next ==
    \/ Resume
    \/ CallDiscrete
    \/ CallContinuous
    \/ CallDatetime
    \/ CallText
    \/ CallList
    \/ CallSummaryTable

Spec == Init /\ [][Next]_vars

-----------------------------------------------------------------------------
(* Properties *)

Returned == pc = "returned"

Orchestrators == {"discrete", "continuous", "datetime", "text", "list"}

(* the statistics of row i of the table the last call built *)
Stats(i) == built.rows[i].stats

CallerColumn == callerData[Column]

(* the data the builder summarised for row 1 of the last call's table *)
Summarised ==
    IF last.fn = "text"
    THEN TakeRows(callerData, NotNullRows(callerData, Column))
    ELSE trim_values(callerData, Column, last.lower_trim, last.upper_trim)

(* C1: in every table the builder returns, count_observed + count_missing *)
(* is the number of rows of the (trimmed) data it summarised.  The second *)
(* row of the datetime table summarises the deltas of all rows but the    *)
(* first; the rows of the text table all summarise the documents left.    *)
C1_CountsBalance ==
    (Returned /\ last.fn # "list") =>
        \A i \in 1..Len(built.rows) :
            Stats(i)["count_observed"][1] + Stats(i)["count_missing"][1]
                = IF last.fn = "datetime" /\ i = 2
                  THEN Max(NumRows(Summarised) - 1, 0)
                  ELSE NumRows(Summarised)

C1_Witness ==
    /\ Returned
    /\ last.fn = "table"
    /\ last.lower_trim = 1
    /\ Stats(1)["count_missing"][1] = 1
    /\ Stats(1)["count_observed"][1] = 1
    /\ NumRows(callerData) = 3

(* C2: when the column has at least lower_trim + upper_trim values, the   *)
(* count_observed of a call with these trims is that of the same call     *)
(* with both trims 0, less lower_trim + upper_trim.                       *)
C2_TrimReducesObserved ==
    (/\ Returned
     /\ last.fn \in {"table", "continuous"}
     /\ Cardinality(Observed(CallerColumn)) >= last.lower_trim + last.upper_trim) =>
        Stats(1)["count_observed"][1]
            = compute_univariate_summary_table(
                  callerData, Column, last.data_type, 0, 0).stats["count_observed"][1]
              - (last.lower_trim + last.upper_trim)

C2_Witness ==
    /\ Returned
    /\ last.fn = "continuous"
    /\ last.lower_trim = 1
    /\ last.upper_trim = 1
    /\ Cardinality(Observed(CallerColumn)) = 3
    /\ Stats(1)["count_observed"][1] = 1

(* C3: no call changes the caller's dataset. *)
C3_CallerDataUntouched == [][callerData' = callerData]_vars

(* a call that added derived columns to, and dropped rows from, its copy *)
C3_Witness ==
    /\ Returned
    /\ last.fn = "list"
    /\ "num_entries" \in DOMAIN work
    /\ NumRows(work) < NumRows(callerData)
    /\ DOMAIN callerData = {Column}

IsTablePair(r) ==
    /\ r.py = "tuple"
    /\ Len(r.items) = 2
    /\ r.items[1].py = "DataFrame"
    /\ r.items[2].py = "Figure"

(* C4: every orchestrator hands back a (statistics table, figure) pair. *)
C4_ReturnsPair ==
    (Returned /\ last.fn \in Orchestrators /\ Observed(CallerColumn) # {}) =>
        IsTablePair(ret)

ContinuousRows ==
    CASE last.fn = "continuous" -> {1}
      [] last.fn = "table" /\ last.data_type = "continuous" -> {1}
      [] last.fn = "datetime" -> {2}
      [] last.fn = "text" -> {2, 3}
      [] OTHER -> {}

(* C5: in a continuous summary with at least one observed value,          *)
(* min <= 25% <= median <= 75% <= max and iqr = 75% - 25%.                *)
C5_QuantilesOrdered ==
    Returned =>
        \A i \in ContinuousRows :
            Stats(i)["count_observed"][1] >= 1 =>
                /\ Stats(i)["min"][1] <= Stats(i)["25%"][1]
                /\ Stats(i)["25%"][1] <= Stats(i)["median"][1]
                /\ Stats(i)["median"][1] <= Stats(i)["75%"][1]
                /\ Stats(i)["75%"][1] <= Stats(i)["max"][1]
                /\ Stats(i)["iqr"][1] = Stats(i)["75%"][1] - Stats(i)["25%"][1]

(* three distinct values, so that 25% and 75% fall between two of them *)
C5_Witness ==
    /\ Returned
    /\ last.fn = "continuous"
    /\ last.lower_trim = 0
    /\ last.upper_trim = 0
    /\ Stats(1)["count_observed"][1] = 3
    /\ Stats(1)["min"][1] < Stats(1)["25%"][1]
    /\ Stats(1)["25%"][1] < Stats(1)["median"][1]
    /\ Stats(1)["75%"][1] < Stats(1)["max"][1]

CountFields == {"count_observed", "count_unique", "count_missing", "percent_missing"}

QuantileFields == {"min", "25%", "median", "75%", "max", "iqr"}

(* C6: data_type decides the statistics of the table: datetime gives the  *)
(* counts and the quantile fields without mean and std, continuous gives  *)
(* the counts, the quantile fields, mean and std, anything else the       *)
(* counts alone.                                                          *)
C6_FieldsByType ==
    (Returned /\ last.fn = "table") =>
        DOMAIN Stats(1) =
            CASE last.data_type = "datetime" -> CountFields \cup QuantileFields
              [] last.data_type = "continuous" ->
                    CountFields \cup QuantileFields \cup {"mean", "std"}
              [] OTHER -> CountFields

C6_Witness ==
    /\ Returned
    /\ last.fn = "table"
    /\ last.data_type = "datetime"
    /\ kind = "datetime"
    /\ "mean" \notin DOMAIN Stats(1)
    /\ Stats(1)["min"] # NaN

(* percent_missing rounded to one decimal, in tenths *)
Tenths(p) == (10 * p[1] + (p[2] \div 2)) \div p[2]

(* C7: for a discrete column count_observed is the number of non-missing  *)
(* rows, count_unique the number of distinct non-missing values,          *)
(* count_missing the number of missing rows and percent_missing           *)
(* 100 * count_missing / rows; [1,2,2,3,3,3,None] gives 6, 3, 1 and 14.3. *)
C7_DiscreteCounts ==
    (Returned /\ last.fn = "discrete") =>
        LET col     == CallerColumn
            present == {i \in 1..Len(col) : col[i] # NA}
        IN  /\ Stats(1)["count_observed"][1] = Cardinality(present)
            /\ Stats(1)["count_unique"][1] = Cardinality({col[i][1] : i \in present})
            /\ Stats(1)["count_missing"][1] = Len(col) - Cardinality(present)
            /\ Len(col) > 0 =>
                   Stats(1)["percent_missing"][1] * Len(col)
                       = 100 * (Len(col) - Cardinality(present))
                             * Stats(1)["percent_missing"][2]
            /\ col = ExampleColumn =>
                   /\ Stats(1)["count_observed"] = <<6>>
                   /\ Stats(1)["count_unique"] = <<3>>
                   /\ Stats(1)["count_missing"] = <<1>>
                   /\ Tenths(Stats(1)["percent_missing"]) = 143

C7_Witness ==
    /\ Returned
    /\ last.fn = "discrete"
    /\ kind = "numeric"
    /\ CallerColumn = ExampleColumn
    /\ Stats(1)["count_unique"] = <<3>>

(* the lists of the caller's column that are not missing *)
CallerLists == SelectIdx(CallerColumn, Observed(CallerColumn), 1)

Occurrences(v) ==
    SumSeq([r \in 1..Len(CallerLists) |->
        Cardinality({i \in 1..Len(CallerLists[r][1]) : CallerLists[r][1][i] = v})])

(* the number of times a and b stand together in a list, in either order *)
UnorderedPairs(a, b) ==
    SumSeq([r \in 1..Len(CallerLists) |->
        LET l == CallerLists[r][1]
        IN  Cardinality({ij \in (1..Len(l)) \X (1..Len(l)) :
                /\ ij[1] < ij[2]
                /\ {l[ij[1]], l[ij[2]]} = {a, b}})])

(* C8: the frequency drawn for an entry is the number of its occurrences  *)
(* over all lists, and the frequency drawn for a pair is the number of    *)
(* times its two entries stand together in a list, in either order.       *)
C8_PairsUnordered ==
    (Returned /\ last.fn = "list") =>
        /\ \A v \in DOMAIN figure.panels[1].counts :
               figure.panels[1].counts[v] = Occurrences(v)
        /\ \A pr \in DOMAIN figure.panels[2].counts :
               figure.panels[2].counts[pr] = UnorderedPairs(pr[1], pr[2])

FreshPalette == "tab10"

C11_EmptyTrimDegenerate ==
    (/\ Returned
     /\ last.fn = "table"
     /\ NumRows(callerData) > 0
     /\ NumRows(Summarised) = 0) =>
        /\ ret.py = "DataFrame"
        /\ Len(ret.rows) = 1
        /\ Stats(1)["count_observed"] = <<0>>
        /\ Stats(1)["count_unique"] = <<0>>
        /\ Stats(1)["count_missing"] = <<0>>
        /\ Stats(1)["percent_missing"] = NaN
        /\ \A f \in (DOMAIN Stats(1)) \ CountFields : Stats(1)[f] = NaN

(* both trims 1 on a column of two values, summarised as continuous *)
C11_Witness ==
    /\ Returned
    /\ last.fn = "table"
    /\ last.data_type = "continuous"
    /\ last.lower_trim = 1
    /\ last.upper_trim = 1
    /\ NumRows(callerData) = 2
    /\ Observed(CallerColumn) = {1, 2}
    /\ NumRows(Summarised) = 0
    /\ Stats(1)["percent_missing"] = NaN
    /\ Stats(1)["min"] = NaN

RECURSIVE SumOver(_, _)
SumOver(f, S) ==
    IF S = {} THEN 0
    ELSE LET k == CHOOSE k \in S : TRUE IN f[k] + SumOver(f, S \ {k})

(* the number of rows of a plotted column at each level of a domain *)
LevelCounts(values, domain) ==
    [l \in domain |-> Cardinality({i \in 1..Len(values) : values[i] = <<l>>})]

(* the panel of the last call's figure that is the count plot of a column *)
CountplotOf(name) ==
    figure.panels[CHOOSE i \in 1..Len(figure.panels) :
                      /\ figure.panels[i].plot = "countplot"
                      /\ figure.panels[i].column = name]

CalendarDomains ==
    "Month"        :> {"January", "February", "March", "April", "May", "June",
                       "July", "August", "September", "October", "November",
                       "December"} @@
    "Day of Month" :> 1..31 @@
    "Day of Week"  :> {"Monday", "Tuesday", "Wednesday", "Thursday", "Friday",
                       "Saturday", "Sunday"} @@
    "Hour"         :> 0..23

(* C12: in the datetime orchestrator, the values handed to the count plot *)
(* of each calendar field (month, day of month, day of week, hour),       *)
(* counted over the field's full domain (12 months, 1..31, 7 weekdays,    *)
(* 0..23), sum to the number of non-missing rows of the trimmed column,   *)
(* and a row is missing in the plotted field only where the timestamp is. *)
C12_CalendarCountsSum ==
    (Returned /\ last.fn = "datetime") =>
        \A name \in DOMAIN CalendarDomains :
            LET values == CountplotOf(name).values
            IN  /\ SumOver(LevelCounts(values, CalendarDomains[name]),
                           CalendarDomains[name])
                       = Cardinality(Observed(Summarised[Column]))
                /\ Len(values) = NumRows(Summarised)
                /\ \A i \in 1..Len(values) :
                       IsNull(values[i]) <=> IsNull(Summarised[Column][i])

(* an untrimmed column with a missing entry, a timestamp on 31 December   *)
(* at 23h and one on 1 February at 11h                                    *)
C12_Witness ==
    /\ Returned
    /\ last.fn = "datetime"
    /\ last.lower_trim = 0
    /\ last.upper_trim = 0
    /\ Cardinality(Observed(CallerColumn)) = 2
    /\ NumRows(callerData) = 3
    /\ LevelCounts(CountplotOf("Day of Month").values, 1..31)[31] = 1
    /\ LevelCounts(CountplotOf("Hour").values, 0..23)[23] = 1
    /\ LevelCounts(CountplotOf("Month").values, {"February", "December"})["February"] = 1

C14_TextTableNoMissing ==
    (Returned /\ last.fn = "text") =>
        LET present == {i \in 1..Len(CallerColumn) : CallerColumn[i] # NA}
        IN  /\ built.rows[1].index = Column
            /\ Stats(1)["count_missing"] = <<0>>
            /\ Stats(1)["count_observed"] = <<Cardinality(present)>>
            /\ NumRows(work) = Cardinality(present)
            /\ present = {} <=> Stats(1)["percent_missing"] = NaN
            /\ present # {} => Stats(1)["percent_missing"][1] = 0

(* two of the three entries of the caller's column are missing *)
C14_Witness ==
    /\ Returned
    /\ last.fn = "text"
    /\ NumRows(callerData) = 3
    /\ IsnullSum(CallerColumn) = 2
    /\ Stats(1)["count_missing"] = <<0>>
    /\ Stats(1)["count_observed"] = <<1>>

====
